---- MODULE Spec2Model ----
(***************************************************************************)
(* Model of the kernel driver debug TUI:                                   *)
(*   - src/kernel_debugger_tui.c: the user-space session (main/render      *)
(*     thread, event thread, data_mutex, commands of handle_input);        *)
(*   - src/kernel_debugger.bpf.c: the generic probes, control_map and the  *)
(*     perf event output;                                                  *)
(*   - src/bpf_templates/enhanced_bpf_template.c: the register-capturing   *)
(*     probe, debug_control and the ring buffer rb.                        *)
(*                                                                         *)
(* unsigned long / u64 values are written by their two's-complement        *)
(* signed reading, so that the kernel address 0xffffffff80000000 is -2^31  *)
(* and "+ 4" is ordinary addition inside the explored range.               *)
(***************************************************************************)
EXTENDS Integers, Sequences, FiniteSets, TLC

VARIABLES
    state,              \* ctx->state (debug_state_t)
    running,            \* ctx->running
    regs_pc,            \* ctx->regs.pc
    current_addr,       \* ctx->current_addr
    current_function,   \* ctx->current_function
    counter,            \* static int counter of event_thread
    breakpoints,        \* ctx->breakpoints (linked list, head first)
    bpf_fd,             \* ctx->bpf_fd
    bpf_loaded,         \* ctx->bpf_loaded
    perf_fd,            \* ctx->perf_fd
    open_fds,           \* descriptors open in the process
    current_focus,      \* ctx->current_focus
    mouse_enabled,      \* ctx->mouse_enabled
    data_mutex,         \* ctx->data_mutex: its owner
    event_started,      \* ctx->event_thread is set (pthread_create succeeded)
    pc_main,            \* position of the main (interactive/render) thread
    pc_ev,              \* position of the event thread
    ret,                \* where update_all_windows returns to
    snap_addr,          \* addresses read so far by the current render pass
    snap_fn,            \* function names read so far by the current render pass
    control_map,        \* control_map[0] (struct debugger_control)
    events,             \* records output to the perf event array "events"
    debug_control,      \* debug_control[0] (u32) of the enhanced template
    rb,                 \* records submitted to the ring buffer rb
    trace_pipe,         \* number of bpf_printk lines written
    fired,              \* the probe invocation that ran last (observation only)
    reg_scroll_pos,     \* ctx->reg_scroll_pos
    var_scroll_pos,     \* ctx->var_scroll_pos
    stack_scroll_pos,   \* ctx->stack_scroll_pos
    code_scroll_pos,    \* ctx->code_scroll_pos
    mem_scroll_pos,     \* ctx->mem_scroll_pos
    copy_dst,           \* safe_strcpy: the buffer dst points to
    copy_src,           \* safe_strcpy: src (a string, or NULL)
    copy_max_len,       \* safe_strcpy: max_len
    copy_reads,         \* safe_strcpy: the indices of src the call has read
    copy_pc             \* safe_strcpy: before or after the call

sessionVars == <<state, running, regs_pc, current_addr, current_function, counter,
                 breakpoints, bpf_fd, bpf_loaded, perf_fd, open_fds, current_focus,
                 mouse_enabled>>
threadVars  == <<data_mutex, event_started, pc_main, pc_ev, ret, snap_addr, snap_fn>>
kernelVars  == <<control_map, events, debug_control, rb, trace_pipe, fired>>
viewVars    == <<reg_scroll_pos, var_scroll_pos, stack_scroll_pos, code_scroll_pos, mem_scroll_pos>>
copyVars    == <<copy_dst, copy_src, copy_max_len, copy_reads, copy_pc>>
vars        == <<sessionVars, threadVars, kernelVars, viewVars, copyVars>>

----------------------------------------------------------------------------
(* Bounds of the model *)

\* event_thread iterations explored (regs.pc advances by 4 per iteration)
MaxIter == 10

\* records the perf event array holds before bpf_perf_event_output fails
PerfCap == 2

\* records the ring buffer rb holds before bpf_ringbuf_reserve fails
RbCap == 1

\* bpf_printk lines explored
MaxTrace == 3

\* length of the longest source string given to safe_strcpy
MaxLen == 3

\* scroll positions explored: those within MaxScroll of 0 or of INT_MAX
MaxScroll == 1

----------------------------------------------------------------------------
(* Program constants *)

DEBUG_STOPPED    == "DEBUG_STOPPED"
DEBUG_RUNNING    == "DEBUG_RUNNING"
DEBUG_STEPPING   == "DEBUG_STEPPING"
DEBUG_BREAKPOINT == "DEBUG_BREAKPOINT"
DebugStates      == {DEBUG_STOPPED, DEBUG_RUNNING, DEBUG_STEPPING, DEBUG_BREAKPOINT}

FOCUS_REGISTERS == 0
FOCUS_VARIABLES == 1
FOCUS_STACK     == 2
FOCUS_CODE      == 3
FOCUS_MEMORY    == 4
FOCUS_COMMAND   == 5
FOCUS_COUNT     == 6

\* 0xffffffff80000000UL, read as a signed 64-bit value
KernelBase == -2147483647 - 1

\* kernel_debugger.bpf.c
MAX_FUNCTION_NAME    == 64
EVENT_FUNCTION_ENTRY == 0
EVENT_FUNCTION_EXIT  == 1
EVENT_BREAKPOINT     == 2

\* the mutex owners
Free  == "free"
Main  == "main"
Event == "event"

(* The inputs of the model *)

\* the tasks that hit a probe: bpf_get_current_pid_tgid() as upper/lower 32 bits
Tasks == {[hi |-> 1, lo |-> 1], [hi |-> 2, lo |-> 3]}

\* values of bpf_ktime_get_ns() and bpf_get_smp_processor_id()
Ktimes == {1000}
Cpus   == {0}

\* the trap contexts (struct pt_regs) a probe fires with
PtRegsSamples ==
    { [pc |-> KernelBase + 4096, ra |-> KernelBase + 256, sp |-> 4096, s0 |-> 4160,
       a0 |-> 11, a1 |-> 12, a2 |-> 13, a3 |-> 14, a4 |-> 15, a5 |-> 16] }

\* the user memory a probe can read: the set of readable word addresses
MemSamples == { {}, {4096, 4104, 4152, 4144} }

\* the values user space writes into the control maps
TargetPids    == {0, 1, 2}
EnableValues  == {0, 1}
DebugModes    == {0}

\* the keys handle_input distinguishes (any other key falls through the switch)
Keys == {"F5", "F10", "F11", "q", "c", "s", "b", "r", "MOUSE", "TAB", "RESIZE", "other"}

\* where load_bpf_program can stop
LoadOutcomes == {"open_failed", "fstat_failed", "mmap_failed", "prog_load_failed", "loaded"}

----------------------------------------------------------------------------
(* The session: init_debugger *)

\* the lowest descriptor number not in use, as open() and bpf() return it
LowestFreeFd(fds) == CHOOSE n \in 0..(Cardinality(fds)) : n \notin fds /\ \A m \in 0..(n - 1) : m \in fds

init_debugger ==
    /\ state = DEBUG_STOPPED
    /\ running = 1
    /\ current_addr = KernelBase
    /\ current_function = "taco_sys_init"
    /\ bpf_loaded = 0
    /\ bpf_fd = -1
    /\ current_focus = FOCUS_CODE
    /\ data_mutex = Free
    /\ regs_pc = current_addr
    \* the fields memset leaves 0
    /\ counter = 0
    /\ breakpoints = <<>>
    /\ perf_fd = 0
    /\ mouse_enabled = 0
    /\ event_started = FALSE
    /\ reg_scroll_pos = 0
    /\ var_scroll_pos = 0
    /\ stack_scroll_pos = 0
    /\ code_scroll_pos = 0
    /\ mem_scroll_pos = 0
    /\ open_fds = {0, 1, 2}

----------------------------------------------------------------------------
(* The event thread: event_thread *)

\* the loop of a thread that read ctx->running once, before the loop
EvLoopCheckStale ==
    /\ pc_ev = "check"
    /\ regs_pc < KernelBase + 4 * MaxIter
    /\ pc_ev' = "sleep"
    /\ UNCHANGED <<sessionVars, data_mutex, event_started, pc_main, ret, snap_addr, snap_fn, kernelVars, viewVars, copyVars>>

\* the loop of a thread that takes data_mutex before its usleep
EvLoopCheckLocks ==
    /\ pc_ev = "check"
    /\ IF running # 0
         THEN /\ regs_pc < KernelBase + 4 * MaxIter
              /\ data_mutex = Free
              /\ data_mutex' = Event
              /\ pc_ev' = "sleep"
         ELSE /\ pc_ev' = "done"
              /\ UNCHANGED data_mutex
    /\ UNCHANGED <<sessionVars, event_started, pc_main, ret, snap_addr, snap_fn, kernelVars, viewVars, copyVars>>

\* while (ctx->running): the flag is read once per iteration
EvLoopCheck ==
    /\ pc_ev = "check"
    /\ IF running # 0
         THEN /\ regs_pc < KernelBase + 4 * MaxIter
              /\ pc_ev' = "sleep"
         ELSE pc_ev' = "done"
    /\ UNCHANGED <<sessionVars, data_mutex, event_started, pc_main, ret, snap_addr, snap_fn, kernelVars, viewVars, copyVars>>

\* usleep(100000), before the lock is taken
EvSleep ==
    /\ pc_ev = "sleep"
    /\ pc_ev' = "lock"
    /\ UNCHANGED <<sessionVars, data_mutex, event_started, pc_main, ret, snap_addr, snap_fn, kernelVars, viewVars, copyVars>>

\* pthread_mutex_lock(&ctx->data_mutex)
EvLock ==
    /\ pc_ev = "lock"
    /\ data_mutex = Free
    /\ data_mutex' = Event
    /\ pc_ev' = "upd_pc"
    /\ UNCHANGED <<sessionVars, event_started, pc_main, ret, snap_addr, snap_fn, kernelVars, viewVars, copyVars>>

\* ctx->regs.pc += 4
EvUpdatePc ==
    /\ pc_ev = "upd_pc"
    /\ regs_pc' = regs_pc + 4
    /\ pc_ev' = "upd_addr"
    /\ UNCHANGED <<state, running, current_addr, current_function, counter, breakpoints,
                   bpf_fd, bpf_loaded, perf_fd, open_fds, current_focus, mouse_enabled>>
    /\ UNCHANGED <<data_mutex, event_started, pc_main, ret, snap_addr, snap_fn, kernelVars, viewVars, copyVars>>

\* ctx->current_addr = ctx->regs.pc
EvUpdateAddr ==
    /\ pc_ev = "upd_addr"
    /\ current_addr' = regs_pc
    /\ pc_ev' = "upd_func"
    /\ UNCHANGED <<state, running, regs_pc, current_function, counter, breakpoints,
                   bpf_fd, bpf_loaded, perf_fd, open_fds, current_focus, mouse_enabled>>
    /\ UNCHANGED <<data_mutex, event_started, pc_main, ret, snap_addr, snap_fn, kernelVars, viewVars, copyVars>>

\* the function name the simulated execution shows after the counter was incremented
SimulatedFunction(cnt, fn) ==
    IF cnt % 10 = 0 THEN "taco_sys_mmz_alloc"
    ELSE IF cnt % 7 = 0 THEN "taco_sys_init"
    ELSE fn

\* the update, were every event taken for a breakpoint hit
EvUpdateFuncBreaks ==
    /\ pc_ev = "upd_func"
    /\ state' = DEBUG_BREAKPOINT
    /\ pc_ev' = "unlock"
    /\ UNCHANGED <<running, regs_pc, current_addr, current_function, counter, breakpoints,
                   bpf_fd, bpf_loaded, perf_fd, open_fds, current_focus, mouse_enabled>>
    /\ UNCHANGED <<data_mutex, event_started, pc_main, ret, snap_addr, snap_fn, kernelVars, viewVars, copyVars>>

\* if (ctx->state == DEBUG_RUNNING) { counter++; strcpy(ctx->current_function, ...) }
\* ctx->state is read, never written, by this thread
EvUpdateFunc ==
    /\ pc_ev = "upd_func"
    /\ IF state = DEBUG_RUNNING
         THEN /\ counter' = counter + 1
              /\ current_function' = SimulatedFunction(counter + 1, current_function)
         ELSE UNCHANGED <<counter, current_function>>
    /\ pc_ev' = "unlock"
    /\ UNCHANGED <<state, running, regs_pc, current_addr, breakpoints,
                   bpf_fd, bpf_loaded, perf_fd, open_fds, current_focus, mouse_enabled>>
    /\ UNCHANGED <<data_mutex, event_started, pc_main, ret, snap_addr, snap_fn, kernelVars, viewVars, copyVars>>

\* the end of the iteration without the unlock
EvUnlockMissing ==
    /\ pc_ev = "unlock"
    /\ pc_ev' = "check"
    /\ UNCHANGED <<sessionVars, data_mutex, event_started, pc_main, ret, snap_addr, snap_fn, kernelVars, viewVars, copyVars>>

\* pthread_mutex_unlock(&ctx->data_mutex)
EvUnlock ==
    /\ pc_ev = "unlock"
    /\ data_mutex' = Free
    /\ pc_ev' = "check"
    /\ UNCHANGED <<sessionVars, event_started, pc_main, ret, snap_addr, snap_fn, kernelVars, viewVars, copyVars>>

event_thread == EvLoopCheck \/ EvSleep \/ EvLock \/ EvUpdatePc \/ EvUpdateAddr \/ EvUpdateFunc \/ EvUnlock

----------------------------------------------------------------------------
(* load_bpf_program, switch_window_focus *)

\* a load_bpf_program that sets bpf_loaded before it knows the program was accepted
LoadResultFlagFirst(fds, outcome) ==
    IF outcome \in {"loaded", "prog_load_failed"}
      THEN [bpf_fd |-> IF outcome = "loaded" THEN LowestFreeFd(fds) ELSE -1,
            bpf_loaded |-> 1,
            open_fds |-> IF outcome = "loaded" THEN fds \cup {LowestFreeFd(fds)} ELSE fds]
      ELSE [bpf_fd |-> -1, bpf_loaded |-> 0, open_fds |-> fds]

\* bpf_fd, bpf_loaded and the descriptor table after load_bpf_program stopped at
\* `outcome`: the object file's descriptor is closed again on every path
LoadResult(fds, outcome) ==
    IF outcome = "loaded"
      THEN [bpf_fd |-> LowestFreeFd(fds), bpf_loaded |-> 1, open_fds |-> fds \cup {LowestFreeFd(fds)}]
      ELSE [bpf_fd |-> -1, bpf_loaded |-> 0, open_fds |-> fds]

\* the focus after switch_window_focus(ctx, new_focus)
SwitchWindowFocus(focus, new_focus) ==
    IF new_focus >= FOCUS_COUNT THEN focus ELSE new_focus

----------------------------------------------------------------------------
(* The main thread: main, update_all_windows, handle_input, cleanup_debugger *)

\* init_ui: fails when the terminal has no colours, else sets up the windows
MainInitUi ==
    /\ pc_main = "init_ui"
    /\ \E has_colors \in BOOLEAN, mouse \in BOOLEAN :
         IF ~has_colors
           THEN /\ pc_main' = "cleanup"
                /\ UNCHANGED <<mouse_enabled, current_focus>>
           ELSE /\ mouse_enabled' = (IF mouse THEN 1 ELSE mouse_enabled)
                /\ current_focus' = SwitchWindowFocus(current_focus, current_focus)
                /\ pc_main' = "load"
    /\ UNCHANGED <<state, running, regs_pc, current_addr, current_function, counter,
                   breakpoints, bpf_fd, bpf_loaded, perf_fd, open_fds>>
    /\ UNCHANGED <<data_mutex, event_started, pc_ev, ret, snap_addr, snap_fn, kernelVars, viewVars, copyVars>>

\* main: load_bpf_program at startup; a failure is ignored
MainLoad ==
    /\ pc_main = "load"
    /\ \E outcome \in LoadOutcomes :
         LET r == LoadResult(open_fds, outcome) IN
           /\ bpf_fd' = r.bpf_fd
           /\ bpf_loaded' = r.bpf_loaded
           /\ open_fds' = r.open_fds
    /\ pc_main' = "create"
    /\ UNCHANGED <<state, running, regs_pc, current_addr, current_function, counter,
                   breakpoints, perf_fd, current_focus, mouse_enabled>>
    /\ UNCHANGED <<data_mutex, event_started, pc_ev, ret, snap_addr, snap_fn, kernelVars, viewVars, copyVars>>

\* main: pthread_create(&ctx.event_thread, ...); on failure cleanup_ui, cleanup_debugger
MainCreate ==
    /\ pc_main = "create"
    /\ \E created \in BOOLEAN :
         IF created
           THEN /\ event_started' = TRUE
                /\ pc_ev' = "check"
                /\ pc_main' = "loop"
           ELSE /\ pc_main' = "cleanup"
                /\ UNCHANGED <<event_started, pc_ev>>
    /\ UNCHANGED <<sessionVars, data_mutex, ret, snap_addr, snap_fn, kernelVars, viewVars, copyVars>>

\* main: while (ctx.running); after the loop cleanup_ui, then cleanup_debugger
MainLoopCheck ==
    /\ pc_main = "loop"
    /\ IF running # 0
         THEN /\ pc_main' = "r_lock"
              /\ ret' = "getch"
         ELSE /\ pc_main' = "cleanup"
              /\ UNCHANGED ret
    /\ UNCHANGED <<sessionVars, data_mutex, event_started, pc_ev, snap_addr, snap_fn, kernelVars, viewVars, copyVars>>

\* update_all_windows entered without taking data_mutex
RenderLockSkipped ==
    /\ pc_main = "r_lock"
    /\ pc_main' = "r_status"
    /\ UNCHANGED <<sessionVars, data_mutex, event_started, pc_ev, ret, snap_addr, snap_fn, kernelVars, viewVars, copyVars>>

\* update_all_windows: pthread_mutex_lock(&ctx->data_mutex)
RenderLock ==
    /\ pc_main = "r_lock"
    /\ data_mutex = Free
    /\ data_mutex' = Main
    /\ pc_main' = "r_status"
    /\ UNCHANGED <<sessionVars, event_started, pc_ev, ret, snap_addr, snap_fn, kernelVars, viewVars, copyVars>>

\* update_status: reads state, current_function, current_addr; wrefresh
RenderStatus ==
    /\ pc_main = "r_status"
    /\ snap_addr' = Append(snap_addr, current_addr)
    /\ snap_fn' = Append(snap_fn, current_function)
    /\ pc_main' = "r_regs"
    /\ UNCHANGED <<sessionVars, data_mutex, event_started, pc_ev, ret, kernelVars, viewVars, copyVars>>

\* update_registers: reads regs.pc (and the other registers); wrefresh
RenderRegisters ==
    /\ pc_main = "r_regs"
    /\ snap_addr' = Append(snap_addr, regs_pc)
    /\ pc_main' = "r_stack"
    /\ UNCHANGED <<sessionVars, data_mutex, event_started, pc_ev, ret, snap_fn, kernelVars, viewVars, copyVars>>

\* update_variables, update_stack: reads current_function, current_addr; wrefresh
RenderStack ==
    /\ pc_main = "r_stack"
    /\ snap_addr' = Append(snap_addr, current_addr)
    /\ snap_fn' = Append(snap_fn, current_function)
    /\ pc_main' = "r_rest"
    /\ UNCHANGED <<sessionVars, data_mutex, event_started, pc_ev, ret, kernelVars, viewVars, copyVars>>

\* update_memory, update_code: read current_addr; update_command; update_panels; doupdate
RenderRest ==
    /\ pc_main = "r_rest"
    /\ snap_addr' = Append(snap_addr, current_addr)
    /\ pc_main' = "r_unlock"
    /\ UNCHANGED <<sessionVars, data_mutex, event_started, pc_ev, ret, snap_fn, kernelVars, viewVars, copyVars>>

\* update_all_windows returning without the unlock
RenderUnlockMissing ==
    /\ pc_main = "r_unlock"
    /\ pc_main' = ret
    /\ snap_addr' = <<>>
    /\ snap_fn' = <<>>
    /\ UNCHANGED <<sessionVars, data_mutex, event_started, pc_ev, ret, kernelVars, viewVars, copyVars>>

\* update_all_windows: pthread_mutex_unlock(&ctx->data_mutex), and return
RenderUnlock ==
    /\ pc_main = "r_unlock"
    /\ data_mutex' = Free
    /\ pc_main' = ret
    /\ snap_addr' = <<>>
    /\ snap_fn' = <<>>
    /\ UNCHANGED <<sessionVars, event_started, pc_ev, ret, kernelVars, viewVars, copyVars>>

update_all_windows == RenderLock \/ RenderStatus \/ RenderRegisters \/ RenderStack \/ RenderRest \/ RenderUnlock

\* ctx->state after the key ch
KeyState(ch, st) ==
    CASE ch \in {"F5", "c"}         -> DEBUG_RUNNING
      [] ch \in {"F10", "F11", "s"} -> DEBUG_STEPPING
      [] ch = "b"                   -> DEBUG_BREAKPOINT
      [] OTHER                      -> st

\* the keys whose case assigns ctx->state
StateKeys == {"F5", "c", "F10", "F11", "s", "b"}

\* handle_input: getch() and the switch on the key; the cases of 'r' and KEY_RESIZE
\* go on in MainReload and in update_all_windows
handle_input ==
    /\ pc_main = "getch"
    /\ \E ch \in Keys :
         /\ state' = KeyState(ch, state)
         /\ running' = (IF ch = "q" THEN 0 ELSE running)
         /\ current_focus' = (IF ch = "TAB"
                                THEN SwitchWindowFocus(current_focus, (current_focus + 1) % FOCUS_COUNT)
                                ELSE current_focus)
         /\ IF ch = "RESIZE"
              THEN /\ pc_main' = "r_lock"
                   /\ ret' = "sleep"
              ELSE /\ pc_main' = (IF ch = "r" THEN "reload" ELSE "sleep")
                   /\ UNCHANGED ret
    /\ UNCHANGED <<regs_pc, current_addr, current_function, counter, breakpoints, perf_fd,
                   mouse_enabled, bpf_fd, bpf_loaded, open_fds>>
    /\ UNCHANGED <<data_mutex, event_started, pc_ev, snap_addr, snap_fn, kernelVars, viewVars, copyVars>>

\* handle_input, case 'r': if (ctx->bpf_fd >= 0) { close; bpf_fd = -1 } load_bpf_program(ctx);
\* the result of the load is not looked at
MainReload ==
    /\ pc_main = "reload"
    /\ \E outcome \in LoadOutcomes :
         LET closed == IF bpf_fd >= 0 THEN open_fds \ {bpf_fd} ELSE open_fds
             r == LoadResult(closed, outcome)
         IN  /\ bpf_fd' = r.bpf_fd
             /\ bpf_loaded' = r.bpf_loaded
             /\ open_fds' = r.open_fds
    /\ pc_main' = "sleep"
    /\ UNCHANGED <<state, running, regs_pc, current_addr, current_function, counter,
                   breakpoints, perf_fd, current_focus, mouse_enabled>>
    /\ UNCHANGED <<data_mutex, event_started, pc_ev, ret, snap_addr, snap_fn, kernelVars, viewVars, copyVars>>

\* main: usleep(50000)
MainSleep ==
    /\ pc_main = "sleep"
    /\ pc_main' = "loop"
    /\ UNCHANGED <<sessionVars, data_mutex, event_started, pc_ev, ret, snap_addr, snap_fn, kernelVars, viewVars, copyVars>>

\* cleanup_debugger: ctx->running = 0
CleanupStop ==
    /\ pc_main = "cleanup"
    /\ running' = 0
    /\ pc_main' = "join"
    /\ UNCHANGED <<state, regs_pc, current_addr, current_function, counter, breakpoints,
                   bpf_fd, bpf_loaded, perf_fd, open_fds, current_focus, mouse_enabled>>
    /\ UNCHANGED <<data_mutex, event_started, pc_ev, ret, snap_addr, snap_fn, kernelVars, viewVars, copyVars>>

\* a cleanup_debugger that goes on without waiting for the event thread
CleanupJoinNoWait ==
    /\ pc_main = "join"
    /\ pc_main' = "release"
    /\ UNCHANGED <<sessionVars, data_mutex, event_started, pc_ev, ret, snap_addr, snap_fn, kernelVars, viewVars, copyVars>>

\* cleanup_debugger: if (ctx->event_thread) pthread_join(ctx->event_thread, NULL)
CleanupJoin ==
    /\ pc_main = "join"
    /\ event_started => pc_ev = "done"
    /\ pc_main' = "release"
    /\ UNCHANGED <<sessionVars, data_mutex, event_started, pc_ev, ret, snap_addr, snap_fn, kernelVars, viewVars, copyVars>>

\* cleanup_debugger: close the descriptors, pthread_mutex_destroy, free the breakpoint list
CleanupRelease ==
    /\ pc_main = "release"
    /\ open_fds' = (open_fds \ (IF bpf_fd >= 0 THEN {bpf_fd} ELSE {}))
                            \ (IF perf_fd >= 0 THEN {perf_fd} ELSE {})
    /\ data_mutex' = "destroyed"
    /\ breakpoints' = <<>>
    /\ pc_main' = "exited"
    /\ UNCHANGED <<state, running, regs_pc, current_addr, current_function, counter,
                   bpf_fd, bpf_loaded, perf_fd, current_focus, mouse_enabled>>
    /\ UNCHANGED <<event_started, pc_ev, ret, snap_addr, snap_fn, kernelVars, viewVars, copyVars>>

cleanup_debugger == CleanupStop \/ CleanupJoin \/ CleanupRelease

\* SIGINT/SIGTERM: g_ctx->running = 0; endwin(); exit(0) ends the whole process
signal_handler ==
    /\ pc_main \notin {"exited", "killed"}
    /\ running' = 0
    /\ pc_main' = "killed"
    /\ pc_ev' = (IF pc_ev \in {"idle", "done"} THEN pc_ev ELSE "killed")
    /\ UNCHANGED <<state, regs_pc, current_addr, current_function, counter, breakpoints,
                   bpf_fd, bpf_loaded, perf_fd, open_fds, current_focus, mouse_enabled>>
    /\ UNCHANGED <<data_mutex, event_started, ret, snap_addr, snap_fn, kernelVars, viewVars, copyVars>>

main == MainInitUi \/ MainLoad \/ MainCreate \/ MainLoopCheck \/ update_all_windows
          \/ handle_input \/ MainReload \/ MainSleep \/ cleanup_debugger

----------------------------------------------------------------------------
(* The specification of the user-space process *)

\* no probe has run yet
NoFiring == [probe |-> "none", kind |-> -1, passed |-> FALSE, rc |-> 0, flip |-> 0]

KernelInit ==
    /\ control_map = <<[debug_mode |-> 0, target_pid |-> 0, global_enable |-> 0]>>
    /\ events = <<>>
    /\ debug_control = <<0>>
    /\ rb = <<>>
    /\ trace_pipe = 0
    /\ fired = NoFiring

\* no call of safe_strcpy is under way
CopyIdle ==
    /\ copy_dst = <<>>
    /\ copy_src = <<>>
    /\ copy_max_len = 0
    /\ copy_reads = {}
    /\ copy_pc = "none"

Init ==
    /\ init_debugger
    /\ pc_main = "init_ui"
    /\ pc_ev = "idle"
    /\ ret = "getch"
    /\ snap_addr = <<>>
    /\ snap_fn = <<>>
    /\ KernelInit
    /\ CopyIdle

Next == main \/ event_thread \/ signal_handler

Spec == Init /\ [][Next]_vars

----------------------------------------------------------------------------
(* The kernel side: src/kernel_debugger.bpf.c *)

\* the terminating byte of a C string
NUL == ""

\* the string literals the probes pass, as the bytes before the terminator
STR_traced_function    == <<"t", "r", "a", "c", "e", "d", "_", "f", "u", "n", "c", "t", "i", "o", "n">>
STR_taco_sys_mmz_alloc == <<"t", "a", "c", "o", "_", "s", "y", "s", "_", "m", "m", "z", "_", "a", "l", "l", "o", "c">>
STR___kmalloc          == <<"_", "_", "k", "m", "a", "l", "l", "o", "c">>
STR_target_function    == <<"t", "a", "r", "g", "e", "t", "_", "f", "u", "n", "c", "t", "i", "o", "n">>

\* a buffer of n zero bytes
ZeroBuf(n) == [i \in 1..n |-> NUL]

\* src[i] of a C string: the bytes, then the terminator
CharAt(src, i) == IF i < Len(src) THEN src[i + 1] ELSE NUL

\* a const char *: <<>> is NULL, <<s>> points to the string s
NULL == <<>>

\* the index at which the copy loop of safe_strcpy stops, counting from i:
\* for (...; i < max_len - 1 && src && src[i]; i++)
RECURSIVE CopyEnd(_, _, _)
CopyEndUnlimited(src, max_len, i) ==
    IF src # NULL /\ CharAt(src[1], i) # NUL THEN CopyEnd(src, max_len, i + 1) ELSE i
CopyEnd(src, max_len, i) ==
    IF i < max_len - 1 /\ src # NULL /\ CharAt(src[1], i) # NUL
      THEN CopyEnd(src, max_len, i + 1)
      ELSE i

\* the indices of src the loop condition reads, counting from i: src[i] is read only
\* after i < max_len - 1 and src were found true
RECURSIVE SrcReads(_, _, _)
SrcReads(src, max_len, i) ==
    IF i < max_len - 1 /\ src # NULL
      THEN {i} \cup (IF CharAt(src[1], i) # NUL THEN SrcReads(src, max_len, i + 1) ELSE {})
      ELSE {}

\* dst after safe_strcpy(dst, src, max_len): the bytes copied, then dst[i] = 0
safe_strcpy(dst, src, max_len) ==
    LET n == CopyEnd(src, max_len, 0)
    IN  [i \in 1..Len(dst) |-> IF i <= n THEN src[1][i] ELSE IF i = n + 1 THEN NUL ELSE dst[i]]

\* get_debugger_control: bpf_map_lookup_elem(&control_map, &key), key 0;
\* the result is the entry, or NULL (<<>>) when the map holds no entry
get_debugger_control(map) == IF Len(map) >= 1 THEN <<map[1]>> ELSE <<>>

\* should_trace_process: ctrl is <<>> (NULL) or <<entry>>
should_trace_process(ctrl, current_pid) ==
    IF ctrl = <<>> \/ ctrl[1].global_enable = 0
      THEN FALSE
      ELSE ctrl[1].target_pid = 0 \/ ctrl[1].target_pid = current_pid

\* the record send_debug_event builds; pid_tgid is bpf_get_current_pid_tgid() as
\* its upper (tgid) and lower (pid) 32 bits
DebugEvent(event_type, func_name, pid_tgid, ktime, cpu) ==
    [ timestamp           |-> ktime,
      pid                 |-> pid_tgid.hi,
      tid                 |-> pid_tgid.lo,
      cpu                 |-> cpu,
      event_type          |-> event_type,
      function_name       |-> IF func_name # NULL
                                    THEN safe_strcpy(ZeroBuf(MAX_FUNCTION_NAME), func_name, MAX_FUNCTION_NAME)
                                    ELSE ZeroBuf(MAX_FUNCTION_NAME),
      instruction_pointer |-> 0 ]

\* an output helper that writes the record twice
bpf_perf_event_output_twice(buf, event) ==
    Append(Append(buf, event), event)

\* bpf_perf_event_output: the record is appended unless the buffer has no room
bpf_perf_event_output(buf, event) ==
    IF Len(buf) < PerfCap THEN Append(buf, event) ELSE buf

\* the trap context as the PT_REGS_* macros of the RISC-V target read it
PT_REGS_IP(regs)    == regs.pc
PT_REGS_RC(regs)    == regs.a0
PT_REGS_SP(regs)    == regs.sp
PT_REGS_FP(regs)    == regs.s0

\* what `fired` holds: the program that ran, the kind of event it is meant to report,
\* whether its filter let the invocation pass, and the return-value register of the
\* trap context; flip changes with every invocation
Fired(probe, kind, passed, regs) ==
    [probe |-> probe, kind |-> kind, passed |-> passed, rc |-> PT_REGS_RC(regs),
     flip |-> 1 - fired.flip]

\* send_debug_event(ctx, event_type, func_name), called by the program `probe`, for
\* the task that hit the probe
send_debug_event(probe, event_type, func_name) ==
    /\ \E task \in Tasks, ktime \in Ktimes, cpu \in Cpus, regs \in PtRegsSamples :
         LET ctrl == get_debugger_control(control_map) IN
           /\ fired' = Fired(probe, event_type, should_trace_process(ctrl, task.hi), regs)
           /\ IF ~should_trace_process(ctrl, task.hi)
                THEN UNCHANGED events
                ELSE events' = bpf_perf_event_output(events,
                                   DebugEvent(event_type, func_name, task, ktime, cpu))
    /\ UNCHANGED <<control_map, debug_control, rb, trace_pipe>>
    /\ UNCHANGED <<sessionVars, threadVars, viewVars, copyVars>>

generic_kprobe ==
    send_debug_event("generic_kprobe", EVENT_FUNCTION_ENTRY, <<STR_traced_function>>)
generic_kretprobe ==
    send_debug_event("generic_kretprobe", EVENT_FUNCTION_EXIT, <<STR_traced_function>>)
trace_taco_sys_mmz_alloc_entry ==
    send_debug_event("trace_taco_sys_mmz_alloc_entry", EVENT_FUNCTION_ENTRY, <<STR_taco_sys_mmz_alloc>>)
trace_taco_sys_mmz_alloc_exit ==
    send_debug_event("trace_taco_sys_mmz_alloc_exit", EVENT_FUNCTION_EXIT, <<STR_taco_sys_mmz_alloc>>)
trace_kmalloc_entry ==
    send_debug_event("trace_kmalloc_entry", EVENT_FUNCTION_ENTRY, <<STR___kmalloc>>)
trace_kmalloc_exit ==
    send_debug_event("trace_kmalloc_exit", EVENT_FUNCTION_EXIT, <<STR___kmalloc>>)

----------------------------------------------------------------------------
(* The kernel side: src/bpf_templates/enhanced_bpf_template.c *)

\* the word user memory holds at addr
UserWord(addr) == addr + 1

\* bpf_probe_read_user(&dst, sizeof(u64), addr): the return code and what dst holds
bpf_probe_read_user(mem, addr) ==
    IF addr \in mem THEN [rc |-> 0, val |-> UserWord(addr)] ELSE [rc |-> -14, val |-> 0]

\* a read_user_stack_data that leaves in the slot of a failed read what the memory of
\* the reserved record held before
read_user_stack_data_stale(regs, mem, stack_data, count) ==
    [k \in 1..Len(stack_data) |->
        IF k - 1 < count /\ k - 1 < 8
          THEN LET r == bpf_probe_read_user(mem, PT_REGS_SP(regs) + (k - 1) * 8)
               IN  IF r.rc # 0 THEN -1 ELSE r.val
          ELSE stack_data[k]]

\* stack_data after read_user_stack_data(ctx, stack_data, count)
read_user_stack_data(regs, mem, stack_data, count) ==
    LET sp == PT_REGS_SP(regs)
    IN  [k \in 1..Len(stack_data) |->
            IF k - 1 < count /\ k - 1 < 8
              THEN LET r == bpf_probe_read_user(mem, sp + (k - 1) * 8)
                   IN  IF r.rc # 0 THEN 0 ELSE r.val
              ELSE stack_data[k]]

\* local_vars after read_local_variables(ctx, local_vars, count)
read_local_variables(regs, mem, local_vars, count) ==
    LET fp == PT_REGS_FP(regs)
    IN  [k \in 1..Len(local_vars) |->
            IF k - 1 < count /\ k - 1 < 16
              THEN LET r == bpf_probe_read_user(mem, fp - k * 8)
                   IN  IF r.rc # 0 THEN 0 ELSE r.val
              ELSE local_vars[k]]

\* the record enhanced_breakpoint_probe fills in after the memset
EnhancedEvent(regs, mem, task, ktime) ==
    [ pid           |-> task.lo,
      tgid          |-> task.hi,
      timestamp     |-> ktime,
      breakpoint_id |-> 1,
      function      |-> safe_strcpy(ZeroBuf(64), <<STR_target_function>>, 64),
      pc |-> PT_REGS_IP(regs), ra |-> PT_REGS_RC(regs), sp |-> PT_REGS_SP(regs),
      gp |-> PT_REGS_FP(regs), tp |-> 0,
      a0 |-> regs.a0, a1 |-> regs.a1, a2 |-> regs.a2,
      a3 |-> regs.a3, a4 |-> regs.a4, a5 |-> regs.a5,
      a6 |-> 0, a7 |-> 0,
      t0 |-> 0, t1 |-> 0, t2 |-> 0, s0 |-> 0, s1 |-> 0,
      stack_data    |-> read_user_stack_data(regs, mem, [k \in 1..8 |-> 0], 8),
      local_vars    |-> read_local_variables(regs, mem, [k \in 1..16 |-> 0], 16) ]

\* SEC("kprobe/target_function") enhanced_breakpoint_probe
enhanced_breakpoint_probe ==
    /\ \E regs \in PtRegsSamples, mem \in MemSamples, task \in Tasks, ktime \in Ktimes :
         LET enabled == IF Len(debug_control) >= 1 THEN <<debug_control[1]>> ELSE <<>> IN
           /\ fired' = Fired("enhanced_breakpoint_probe", EVENT_BREAKPOINT,
                              enabled # <<>> /\ enabled[1] # 0, regs)
           /\ IF enabled = <<>> \/ enabled[1] = 0
                THEN UNCHANGED <<rb, trace_pipe>>
                ELSE IF Len(rb) >= RbCap
                  THEN UNCHANGED <<rb, trace_pipe>>
                  ELSE /\ rb' = Append(rb, EnhancedEvent(regs, mem, task, ktime))
                       /\ trace_pipe + 2 <= MaxTrace
                       /\ trace_pipe' = trace_pipe + 2
    /\ UNCHANGED <<control_map, events, debug_control>>
    /\ UNCHANGED <<sessionVars, threadVars, viewVars, copyVars>>

\* SEC("kretprobe/target_function") enhanced_trace_function_return: one bpf_printk
enhanced_trace_function_return ==
    /\ \E regs \in PtRegsSamples :
         fired' = Fired("enhanced_trace_function_return", EVENT_FUNCTION_EXIT, TRUE, regs)
    /\ trace_pipe + 1 <= MaxTrace
    /\ trace_pipe' = trace_pipe + 1
    /\ UNCHANGED <<control_map, events, debug_control, rb>>
    /\ UNCHANGED <<sessionVars, threadVars, viewVars, copyVars>>

----------------------------------------------------------------------------
(* User space writing the control maps *)

\* control_map[0] is rewritten (tracing toggled, target process chosen)
control_map_update ==
    /\ \E m \in DebugModes, p \in TargetPids, g \in EnableValues :
         control_map' = <<[debug_mode |-> m, target_pid |-> p, global_enable |-> g]>>
    /\ UNCHANGED <<events, debug_control, rb, trace_pipe, fired>>
    /\ UNCHANGED <<sessionVars, threadVars, viewVars, copyVars>>

\* debug_control[0] is rewritten
debug_control_update ==
    /\ \E v \in EnableValues : debug_control' = <<v>>
    /\ UNCHANGED <<control_map, events, rb, trace_pipe, fired>>
    /\ UNCHANGED <<sessionVars, threadVars, viewVars, copyVars>>

----------------------------------------------------------------------------
(* The specification of the probes *)

\* no program of kernel_debugger.bpf.c has output a record
GenericIdle == events = <<>>

\* no program of the template has written a record or a trace line
TemplateIdle == rb = <<>> /\ trace_pipe = 0

\* kernel_debugger.bpf.c and the template are two objects; no program of one reads a
\* map or an output of the other, so a run of the probes exercises the programs of
\* one object against every state of its own maps while the other object's outputs
\* are still empty
ProbeNext ==
    \/ /\ TemplateIdle
       /\ \/ generic_kprobe \/ generic_kretprobe
          \/ trace_taco_sys_mmz_alloc_entry \/ trace_taco_sys_mmz_alloc_exit
          \/ trace_kmalloc_entry \/ trace_kmalloc_exit
    \/ /\ GenericIdle
       /\ \/ enhanced_breakpoint_probe \/ enhanced_trace_function_return
    \/ control_map_update \/ debug_control_update

ProbeSpec == Init /\ [][ProbeNext]_vars

----------------------------------------------------------------------------
(* handle_window_scroll called on its own *)

\* the range of int
INT_MAX == 2147483647
INT_MIN == -INT_MAX - 1

\* a + b is outside the range of int
Overflows(a, b) == (b > 0 /\ a > INT_MAX - b) \/ (b < 0 /\ a < INT_MIN - b)

\* a + b in 32-bit two's complement
AddInt(a, b) ==
    IF b > 0 /\ a > INT_MAX - b THEN (((a - INT_MAX) - 1) + b) - INT_MAX - 1
    ELSE IF b < 0 /\ a < INT_MIN - b THEN (((a + INT_MAX) + 1) + b) + INT_MAX + 1
    ELSE a + b

\* a scroll position after pos += direction without the test that follows
ScrollPosUnclamped(pos, direction) == AddInt(pos, direction)

\* a scroll position after: pos += direction; if (pos < 0) pos = 0;
ScrollPos(pos, direction) ==
    IF AddInt(pos, direction) < 0 THEN 0 ELSE AddInt(pos, direction)

\* the values of direction a caller passes
Directions == {INT_MIN, -1, 1, INT_MAX}

\* the scroll position of the window that has the focus (none for the command window)
FocusedPos ==
    CASE current_focus = FOCUS_REGISTERS -> reg_scroll_pos
      [] current_focus = FOCUS_VARIABLES -> var_scroll_pos
      [] current_focus = FOCUS_STACK     -> stack_scroll_pos
      [] current_focus = FOCUS_CODE      -> code_scroll_pos
      [] current_focus = FOCUS_MEMORY    -> mem_scroll_pos
      [] OTHER                           -> 0

\* handle_window_scroll(ctx, direction). Where pos + direction overflows, a build with
\* wrapping arithmetic stores the wrapped sum and then tests it, a build that traps on
\* signed overflow ends the process.
handle_window_scroll ==
    /\ pc_main # "killed"
    /\ \E direction \in Directions :
         /\ \/ ScrollPos(FocusedPos, direction) <= MaxScroll
            \/ ScrollPos(FocusedPos, direction) >= INT_MAX - MaxScroll
         /\ \/ /\ reg_scroll_pos' = (IF current_focus = FOCUS_REGISTERS
                                        THEN ScrollPos(reg_scroll_pos, direction) ELSE reg_scroll_pos)
               /\ var_scroll_pos' = (IF current_focus = FOCUS_VARIABLES
                                        THEN ScrollPos(var_scroll_pos, direction) ELSE var_scroll_pos)
               /\ stack_scroll_pos' = (IF current_focus = FOCUS_STACK
                                          THEN ScrollPos(stack_scroll_pos, direction) ELSE stack_scroll_pos)
               /\ code_scroll_pos' = (IF current_focus = FOCUS_CODE
                                         THEN ScrollPos(code_scroll_pos, direction) ELSE code_scroll_pos)
               /\ mem_scroll_pos' = (IF current_focus = FOCUS_MEMORY
                                        THEN ScrollPos(mem_scroll_pos, direction) ELSE mem_scroll_pos)
               /\ UNCHANGED pc_main
            \/ /\ current_focus \in FOCUS_REGISTERS..FOCUS_MEMORY
               /\ Overflows(FocusedPos, direction)
               /\ pc_main' = "killed"
               /\ UNCHANGED viewVars
    /\ UNCHANGED <<sessionVars, data_mutex, event_started, pc_ev, ret, snap_addr, snap_fn, kernelVars, copyVars>>

\* switch_window_focus(ctx, new_focus), for any value of new_focus
switch_window_focus ==
    /\ pc_main # "killed"
    /\ \E new_focus \in 0..FOCUS_COUNT :
         current_focus' = SwitchWindowFocus(current_focus, new_focus)
    /\ UNCHANGED <<state, running, regs_pc, current_addr, current_function, counter,
                   breakpoints, bpf_fd, bpf_loaded, perf_fd, open_fds, mouse_enabled>>
    /\ UNCHANGED <<threadVars, kernelVars, viewVars, copyVars>>

ScrollNext == handle_window_scroll \/ switch_window_focus

ScrollSpec == Init /\ [][ScrollNext]_vars

----------------------------------------------------------------------------
(* safe_strcpy called on its own *)

\* the bytes of the source strings, and the byte dst holds before the call
Chars   == {"a", "b"}
Garbage == "x"

\* the strings of at most n bytes
Strings(n) == UNION {[1..k -> Chars] : k \in 0..n}

\* the arguments of a call: dst points to a buffer of at least max_len bytes, src is
\* NULL or a string, max_len is at least 1
CopyInit ==
    /\ init_debugger
    /\ pc_main = "init_ui"
    /\ pc_ev = "idle"
    /\ ret = "getch"
    /\ snap_addr = <<>>
    /\ snap_fn = <<>>
    /\ KernelInit
    /\ copy_dst = [i \in 1..(MaxLen + 2) |-> Garbage]
    /\ copy_src \in {NULL} \cup {<<str>> : str \in Strings(MaxLen)}
    /\ copy_max_len \in 1..(MaxLen + 2)
    /\ copy_reads = {}
    /\ copy_pc = "call"

\* the call safe_strcpy(dst, src, max_len)
safe_strcpy_call ==
    /\ copy_pc = "call"
    /\ copy_dst' = safe_strcpy(copy_dst, copy_src, copy_max_len)
    /\ copy_reads' = SrcReads(copy_src, copy_max_len, 0)
    /\ copy_pc' = "returned"
    /\ UNCHANGED <<copy_src, copy_max_len>>
    /\ UNCHANGED <<sessionVars, threadVars, kernelVars, viewVars>>

CopySpec == CopyInit /\ [][safe_strcpy_call]_vars

----------------------------------------------------------------------------
(* The process under fair scheduling, and against a kernel that has traced *)

\* the steps of the main thread that do not wait for the user
MainProgress ==
    \/ MainInitUi \/ MainLoad \/ MainCreate \/ MainLoopCheck \/ update_all_windows
    \/ MainReload \/ MainSleep \/ cleanup_debugger

\* both threads are scheduled; getch() may wait for a key for ever, and no signal need come
FairSpec == Init /\ [][Next]_vars /\ WF_vars(event_thread) /\ WF_vars(MainProgress)

\* as FairSpec, and a thread blocked in pthread_mutex_lock gets the mutex if it is free
\* again and again: the other thread sleeps (usleep) between its release and its next
\* acquisition
LockFairSpec == Init /\ [][Next]_vars /\ SF_vars(event_thread) /\ SF_vars(MainProgress)

\* The probes never read the session and the process never reads the maps, so the
\* states of the whole system are the pairs of a process state and a kernel state.
\* The kernel states the process is run against: nothing traced yet, and tracing
\* enabled with one record of enhanced_breakpoint_probe waiting in rb.
TracedKernel ==
    /\ control_map = <<[debug_mode |-> 0, target_pid |-> 0, global_enable |-> 1]>>
    /\ events = <<>>
    /\ debug_control = <<1>>
    /\ \E regs \in PtRegsSamples, task \in Tasks, ktime \in Ktimes :
         /\ rb = <<EnhancedEvent(regs, {}, task, ktime)>>
         /\ fired = [probe |-> "enhanced_breakpoint_probe", kind |-> EVENT_BREAKPOINT,
                     passed |-> TRUE, rc |-> PT_REGS_RC(regs), flip |-> 1]
    /\ trace_pipe = 2

SysInit ==
    /\ init_debugger
    /\ pc_main = "init_ui"
    /\ pc_ev = "idle"
    /\ ret = "getch"
    /\ snap_addr = <<>>
    /\ snap_fn = <<>>
    /\ (KernelInit \/ TracedKernel)
    /\ CopyIdle

SysSpec == SysInit /\ [][Next]_vars

----------------------------------------------------------------------------
(* Vocabulary of the properties *)

\* positions of the main thread inside update_all_windows with data_mutex held
RenderPositions == {"r_status", "r_regs", "r_stack", "r_rest", "r_unlock"}

\* positions of the event thread between its lock and its unlock
EventCritical == {"upd_pc", "upd_addr", "upd_func", "unlock"}

\* a step of the event thread alone
EventThreadStep == pc_ev' # pc_ev /\ pc_main' = pc_main

\* the step in which the event thread applies its update to the session state machine
EventApplied == pc_ev = "upd_func" /\ pc_ev' = "unlock" /\ pc_main' = pc_main

\* a step of handle_input
CommandStep == pc_main = "getch" /\ pc_main' # pc_main /\ pc_main' # "killed"

\* the breakpoint list holds an enabled breakpoint (at addr)
AnyEnabled(bps) == \E i \in DOMAIN bps : bps[i].enabled # 0
EnabledAt(bps, addr) == \E i \in DOMAIN bps : bps[i].enabled # 0 /\ bps[i].addr = addr

AllEqual(seq) == \A i, j \in DOMAIN seq : seq[i] = seq[j]

----------------------------------------------------------------------------
(* C1 *)

\* C1: a render pass never observes a torn snapshot: while update_all_windows reads
\* the session the event thread is outside its update, current_addr equals regs.pc,
\* and all the addresses and all the function names one pass has read agree.
C1_NoTornSnapshot ==
    /\ AllEqual(snap_addr)
    /\ AllEqual(snap_fn)
    /\ pc_main \in RenderPositions => (pc_ev \notin EventCritical /\ current_addr = regs_pc)

\* a pass has read everything, after the event thread moved the address and the name
C1_Witness ==
    /\ pc_main = "r_unlock"
    /\ Len(snap_addr) = 4
    /\ snap_addr[2] > KernelBase
    /\ snap_fn[2] = "taco_sys_mmz_alloc"

----------------------------------------------------------------------------
(* C2 *)

\* C2 (as claimed): handle_input never writes ctx->state while the event thread is
\* inside its data_mutex critical section.
C2_CommandsUnderLock ==
    [][(CommandStep /\ state' # state) => data_mutex # Event]_vars

----------------------------------------------------------------------------
(* C3 *)

\* C3 (as claimed): a probe emits an event only when its control record is present and
\* enabled and, where the record names a target process, the current process is that
\* one; and while its control record is absent or disabled a probe does no work at all
\* (no record, no trace line).
C3_ProbeFilter ==
    [][ /\ (events' # events) =>
              /\ Len(control_map) >= 1
              /\ control_map[1].global_enable # 0
              /\ \/ control_map[1].target_pid = 0
                 \/ control_map[1].target_pid = events'[Len(events')].pid
        /\ (rb' # rb) => (Len(debug_control) >= 1 /\ debug_control[1] # 0)
        /\ (Len(debug_control) = 0 \/ debug_control[1] = 0) => trace_pipe' = trace_pipe
      ]_vars

----------------------------------------------------------------------------
(* C4 *)

\* the step of the set-breakpoint command ('b')
SetBreakpointStep == CommandStep /\ state' = DEBUG_BREAKPOINT /\ state # DEBUG_BREAKPOINT

\* C4 (as claimed): after a breakpoint command, global_enable of the control record is
\* set if and only if the breakpoint list holds an enabled breakpoint.
C4_Reconciled ==
    [][SetBreakpointStep =>
          ((control_map'[1].global_enable # 0) <=> AnyEnabled(breakpoints'))]_vars

----------------------------------------------------------------------------
(* C5 *)

\* the event thread applies an update while the session is running and a record of the
\* breakpoint probe, which fires at the address of the enabled breakpoint, waits in rb
BreakpointHitIngested ==
    /\ EventApplied
    /\ state = DEBUG_RUNNING
    /\ Len(debug_control) >= 1 /\ debug_control[1] # 0
    /\ Len(rb) >= 1 /\ rb[1].breakpoint_id # 0

\* C5 (as claimed): the session starts stopped, and ingesting a breakpoint hit at an
\* enabled breakpoint while running moves it to at-breakpoint with current_addr at the
\* address of the hit.
C5_BreakpointScenario ==
    /\ state = DEBUG_STOPPED
    /\ [][BreakpointHitIngested =>
            (state' = DEBUG_BREAKPOINT /\ current_addr' = rb[1].pc)]_vars

----------------------------------------------------------------------------
(* C6 *)

\* C6 (as claimed): the session enters at-breakpoint only in a step of the event
\* thread, never in a step of a command.
C6_BreakpointOnlyByEvent ==
    [][(state' = DEBUG_BREAKPOINT /\ state # DEBUG_BREAKPOINT) => EventThreadStep]_vars

----------------------------------------------------------------------------
(* C7 *)

\* C7: a step of the event thread taken while the session is stopped leaves it stopped,
\* unless the address it applies is that of an enabled breakpoint.
C7_StoppedStaysStopped ==
    [][(EventThreadStep /\ state = DEBUG_STOPPED /\ ~EnabledAt(breakpoints, current_addr'))
          => state' = DEBUG_STOPPED]_vars

\* the event thread has applied an update, none of them while running, and the
\* session is stopped
C7_Witness ==
    /\ pc_ev = "unlock"
    /\ state = DEBUG_STOPPED
    /\ counter = 0
    /\ current_addr > KernelBase
    /\ current_addr = regs_pc

----------------------------------------------------------------------------
(* C8 *)

\* C8 (as claimed): the event applied while the session is stepping moves it to
\* at-breakpoint or to stopped.
C8_SteppingTransient ==
    [][(EventApplied /\ state = DEBUG_STEPPING)
          => state' \in {DEBUG_BREAKPOINT, DEBUG_STOPPED}]_vars

----------------------------------------------------------------------------
(* C9 *)

\* the event thread is not (or no longer) in its loop: it returned, it was never
\* started, or the process is gone
EventThreadOver == pc_ev \in {"done", "idle", "killed"}

\* C9: once running is 0 the event thread leaves its loop the next time it is at the
\* loop condition, it returns without holding data_mutex, and under fair scheduling it
\* does return and the pthread_join of cleanup_debugger completes.
C9_ShutdownBounded ==
    /\ [][(running = 0 /\ pc_ev = "check" /\ pc_ev' # pc_ev) => pc_ev' \in {"done", "killed"}]_vars
    /\ [](pc_ev = "done" => data_mutex # Event)
    /\ [](running = 0 => <>EventThreadOver)
    /\ [](pc_main = "join" => <>(pc_main \in {"release", "exited", "killed"}))

\* the thread ran, the quit was seen, and the join has returned
C9_Witness ==
    /\ event_started
    /\ pc_ev = "done"
    /\ pc_main = "release"
    /\ regs_pc > KernelBase

----------------------------------------------------------------------------
(* C10 *)

\* what the next step of the main thread calls at position p
MainCalls(p) ==
    CASE p \in {"r_status", "r_regs", "r_stack", "r_rest"} -> "terminal"
      [] p = "init_ui" -> "terminal"
      [] p = "getch"   -> "input"
      [] p = "sleep"   -> "sleep"
      [] p = "load"    -> "kernel"
      [] p = "reload"  -> "kernel"
      [] p = "join"    -> "join"
      [] p = "release" -> "kernel"
      [] OTHER         -> "none"

\* what the next step of the event thread calls at position p
EventCalls(p) ==
    CASE p = "sleep" -> "sleep"
      [] OTHER       -> "none"

----------------------------------------------------------------------------
(* C11 *)

\* C11: whenever the event thread is in its wait (the usleep of its loop) it does not
\* hold data_mutex: the lock is free or held by the main thread.
C11_WaitOutsideLock ==
    EventCalls(pc_ev) = "sleep" => data_mutex \in {Free, Main}

\* the event thread waits, after an earlier update, while the main thread renders
\* under the lock
C11_Witness ==
    /\ pc_ev = "sleep"
    /\ regs_pc > KernelBase
    /\ data_mutex = Main
    /\ pc_main \in RenderPositions

----------------------------------------------------------------------------
(* C12 *)

\* the programs of kernel_debugger.bpf.c by their section: kprobe (function entry) and
\* kretprobe (function exit); all of them report through the perf event array
EntryProbes == {"generic_kprobe", "trace_taco_sys_mmz_alloc_entry", "trace_kmalloc_entry"}
ExitProbes  == {"generic_kretprobe", "trace_taco_sys_mmz_alloc_exit", "trace_kmalloc_exit"}
PerfProbes  == EntryProbes \cup ExitProbes

\* the kind of event a program of kernel_debugger.bpf.c is to report
KindOf(probe) == IF probe \in EntryProbes THEN EVENT_FUNCTION_ENTRY ELSE EVENT_FUNCTION_EXIT

\* a step in which a probe program ran
ProbeFired == fired' # fired

\* the step appended exactly one record to the perf event array, of the probe's kind
OnePerfEvent ==
    /\ Len(events') = Len(events) + 1
    /\ SubSeq(events', 1, Len(events)) = events
    /\ events'[Len(events')].event_type = KindOf(fired'.probe)
    /\ rb' = rb

\* the step appended exactly one record to the ring buffer
OneRingEvent ==
    /\ Len(rb') = Len(rb) + 1
    /\ SubSeq(rb', 1, Len(rb)) = rb
    /\ events' = events

----------------------------------------------------------------------------
(* C13 *)

\* the fields of an event record that hold one number
ScalarFields(e) == DOMAIN e \ {"function_name", "function", "stack_data", "local_vars"}

\* some field of the record e holds the return value rc
CarriesReturnValue(e, rc) == \E f \in ScalarFields(e) : e[f] = rc

\* debug_control[0] is present and not 0
DebugEnabled == Len(debug_control) >= 1 /\ debug_control[1] # 0

\* C13 (as claimed): an exit probe that fires while tracing is enabled for the task
\* delivers one record of kind exit that carries the return value, through the channel
\* and under the filter of its entry probe: the perf event array and control_map for
\* the programs of kernel_debugger.bpf.c, the ring buffer and debug_control for the
\* return probe of the template.
C13_ExitReportsReturnValue ==
    [][ProbeFired =>
          /\ (fired'.probe \in ExitProbes /\ fired'.passed /\ Len(events) < PerfCap)
                => (OnePerfEvent /\ CarriesReturnValue(events'[Len(events')], fired'.rc))
          /\ (fired'.probe = "enhanced_trace_function_return" /\ DebugEnabled /\ Len(rb) < RbCap)
                => (OneRingEvent /\ CarriesReturnValue(rb'[Len(rb')], fired'.rc))
          /\ (fired'.probe = "enhanced_trace_function_return" /\ ~DebugEnabled)
                => (rb' = rb /\ trace_pipe' = trace_pipe)
      ]_vars

----------------------------------------------------------------------------
(* C14 *)

\* strlen(src), 0 for NULL
SrcLen(src) == IF src = NULL THEN 0 ELSE Len(src[1])

\* the number of bytes the claim says are copied: min(len(src), max_len - 1)
CopiedLen(src, max_len) ==
    IF SrcLen(src) <= max_len - 1 THEN SrcLen(src) ELSE max_len - 1

\* C14: after safe_strcpy(dst, src, max_len), max_len >= 1: dst holds the first
\* min(len(src), max_len - 1) bytes of src followed by a terminator, no byte of dst
\* beyond the first max_len was written, and src was read at no index beyond that of
\* its terminator; for a NULL src nothing is read and dst is the empty string.
C14_SafeStrcpy ==
    copy_pc = "returned" =>
        LET n == CopiedLen(copy_src, copy_max_len) IN
          /\ \A i \in 1..n : copy_dst[i] = copy_src[1][i]
          /\ copy_dst[n + 1] = NUL
          /\ \A i \in 1..Len(copy_dst) : i > copy_max_len => copy_dst[i] = Garbage
          /\ \A i \in copy_reads : 0 <= i /\ i <= SrcLen(copy_src)
          /\ copy_src = NULL => (copy_reads = {} /\ copy_dst[1] = NUL)

\* a call that truncated: the source is longer than max_len - 1 >= 1 bytes
C14_Witness ==
    /\ copy_pc = "returned"
    /\ copy_src # NULL
    /\ copy_max_len >= 2
    /\ Len(copy_src[1]) > copy_max_len - 1
    /\ copy_dst[copy_max_len] = NUL
    /\ copy_dst[1] = copy_src[1][1]

----------------------------------------------------------------------------
(* C15 *)

\* everything the probe programs can write: their maps and the trace pipe
ProbeState == <<control_map, events, debug_control, rb, trace_pipe>>

\* a probe ran, passed its filter, and its channel had no room for the record
DroppedFiring ==
    /\ ProbeFired
    /\ fired'.passed
    /\ \/ fired'.probe = "enhanced_breakpoint_probe" /\ Len(rb) >= RbCap
       \/ fired'.probe \in PerfProbes /\ Len(events) >= PerfCap

\* C15 (as claimed): a dropped event is recorded: the invocation that drops it changes
\* something the programs keep (a drop counter going up by one).
C15_DropCounted ==
    [][DroppedFiring => ProbeState' # ProbeState]_vars

----------------------------------------------------------------------------
(* C16 *)

\* the fields of struct enhanced_debug_event the probe fills in for the snapshot
SnapshotFields ==
    {"pc", "ra", "sp", "gp", "tp", "t0", "t1", "t2", "s0", "s1",
     "a0", "a1", "a2", "a3", "a4", "a5", "a6", "a7", "stack_data", "local_vars"}

\* what a slot read from addr holds: the word at addr, or 0 when the read failed
SlotValue(mem, addr) == IF addr \in mem THEN UserWord(addr) ELSE 0

----------------------------------------------------------------------------
(* C17 *)

\* a call of load_bpf_program returns: at startup, or in the reload command
LoadStep == pc_main \in {"load", "reload"} /\ pc_main' \notin {pc_main, "killed"}

\* the descriptors open besides the standard ones
ExtraFds(fds) == fds \ {0, 1, 2}

\* C17: every load attempt, failed or not, leaves the session running and going on to
\* its next step, with bpf_loaded = 1 exactly if bpf_fd >= 0 (so bpf_loaded = 0 and
\* bpf_fd < 0 after a failure), and with no descriptor open but the one in bpf_fd: the
\* reload has closed the one held before.
C17_LoadFailureNotFatal ==
    /\ [][LoadStep =>
             /\ running' = running /\ running' # 0
             /\ pc_main' = (IF pc_main = "load" THEN "create" ELSE "sleep")
             /\ bpf_loaded' \in {0, 1}
             /\ (bpf_loaded' = 1) <=> (bpf_fd' >= 0)
             /\ ExtraFds(open_fds') = (IF bpf_fd' >= 0 THEN {bpf_fd'} ELSE {})
       ]_vars
    /\ []((bpf_loaded = 1) <=> (bpf_fd >= 0))

\* the load at startup has failed and main goes on to start the event thread,
\* un-instrumented
C17_Witness ==
    /\ pc_main = "create"
    /\ bpf_loaded = 0
    /\ bpf_fd < 0
    /\ ExtraFds(open_fds) = {}
    /\ running = 1

----------------------------------------------------------------------------
(* C18 *)

\* C18: every scroll position is >= 0 at all times, and a step that changes a scroll
\* position changes only the one of the window that has the focus, so none when the
\* command window has it.
C18_ScrollNonNegative ==
    /\ [](/\ reg_scroll_pos >= 0 /\ var_scroll_pos >= 0 /\ stack_scroll_pos >= 0
           /\ code_scroll_pos >= 0 /\ mem_scroll_pos >= 0)
    /\ [][ /\ reg_scroll_pos' # reg_scroll_pos => current_focus = FOCUS_REGISTERS
           /\ var_scroll_pos' # var_scroll_pos => current_focus = FOCUS_VARIABLES
           /\ stack_scroll_pos' # stack_scroll_pos => current_focus = FOCUS_STACK
           /\ code_scroll_pos' # code_scroll_pos => current_focus = FOCUS_CODE
           /\ mem_scroll_pos' # mem_scroll_pos => current_focus = FOCUS_MEMORY
           /\ viewVars' # viewVars => current_focus' = current_focus
         ]_vars

\* windows were scrolled under different focuses, one of them up to INT_MAX, and the
\* focus is now on the command window
C18_Witness ==
    /\ current_focus = FOCUS_COMMAND
    /\ code_scroll_pos = 1
    /\ mem_scroll_pos = INT_MAX
    /\ reg_scroll_pos = 0
    /\ pc_main # "killed"

----------------------------------------------------------------------------
(* C19 *)

\* C19: no thread asks for data_mutex while it holds it (also not on the resize path,
\* where handle_input calls update_all_windows); a thread leaves its wait for the mutex
\* only by obtaining it or when a signal ends the process; and, again and again, the
\* mutex is not held and neither thread is waiting for it: a holder releases it and a
\* waiter obtains it, unless a signal ends the process first.
C19_NoDeadlock ==
    /\ [](~(pc_main = "r_lock" /\ data_mutex = Main))
    /\ [](~(pc_ev = "lock" /\ data_mutex = Event))
    /\ [][(pc_ev = "lock" /\ pc_ev' # "lock")
             => (pc_ev' = "upd_pc" /\ data_mutex' = Event) \/ pc_ev' = "killed"]_vars
    /\ [][(pc_main = "r_lock" /\ pc_main' # "r_lock")
             => (pc_main' = "r_status" /\ data_mutex' = Main) \/ pc_main' = "killed"]_vars
    /\ []<>(data_mutex \notin {Event, Main} \/ pc_main = "killed")
    /\ []<>(pc_ev # "lock")
    /\ []<>(pc_main # "r_lock")

\* the event thread waits for the lock that update_all_windows, called from
\* handle_input on a resize, holds
C19_Witness ==
    /\ pc_ev = "lock"
    /\ data_mutex = Main
    /\ ret = "sleep"
    /\ pc_main = "r_status"

----------------------------------------------------------------------------
(* C20 *)

\* C20: when the event thread was started, cleanup_debugger is past its join, and
\* data_mutex is destroyed and the breakpoint list freed, only with running = 0 and
\* the event thread returned; the event thread is never in its loop with the mutex
\* destroyed.
C20_TeardownOrdered ==
    /\ (event_started /\ pc_main \in {"release", "exited"}) => (running = 0 /\ pc_ev = "done")
    /\ data_mutex = "destroyed" =>
          /\ pc_main = "exited"
          /\ running = 0
          /\ pc_ev \in {"done", "idle"}
          /\ event_started => pc_ev = "done"

\* the mutex is destroyed after an event thread that ran has returned
C20_Witness ==
    /\ data_mutex = "destroyed"
    /\ event_started
    /\ pc_ev = "done"
    /\ regs_pc > KernelBase

====
